---- MODULE Spec2Model ----
(***************************************************************************)
(* Model of the TrackedMessages view                                       *)
(* (src/src/components/cross-chain/tracked-messages.tsx): the polling      *)
(* effect (fetch + setInterval/clearInterval), the row render with its     *)
(* label resolution, the connection indicator and the expansion toggles.   *)
(* The Notification Client (useWebSocket), the message-type resolver       *)
(* (useLayerZero) and the browser (timers, fetch, localStorage, JSON) are  *)
(* the environment of the view.                                            *)
(***************************************************************************)
EXTENDS Integers, Sequences, FiniteSets, TLC

VARIABLES
    mounted,          \* is the TrackedMessages component mounted
    messages,         \* useWebSocket().messages: ordered collection of tracked messages
    connectionState,  \* useWebSocket().connectionState
    expanded,         \* useState<Record<string, boolean>>({})
    localStorage,     \* browser key/value store, keys message_<id>
    hasWindow,        \* typeof window !== 'undefined'
    timers,           \* live browser intervals: handle -> ms elapsed since (re)armed
    intervalId,       \* handle captured by the current effect's cleanup closure (0: none)
    inflight,         \* fetchRealMessages calls suspended at `await fetch(...)`,
                      \* each with what called it: "immediate" (effect) or "tick"
    view,             \* the rendered output of the last render
    lastIssued,       \* what issued the latest fetch since mount: none/mount/rerun/tick
    lastDone,         \* the latest fetch that resumed: its caller, its response and
                      \* the trackMessage calls it made
    sinceFetch,       \* ms since the view was mounted or last issued a fetch (capped)
    sinceTick,        \* ms since the latest interval callback ran (capped)
    tickGap           \* ms between the two latest interval callbacks (capped)

vars == <<mounted, messages, connectionState, expanded, localStorage, hasWindow,
          timers, intervalId, inflight, view, lastIssued, lastDone,
          sinceFetch, sinceTick, tickGap>>

----------------------------------------------------------------------------
(* Bounds of the model *)

MaxInFlight == 1      \* fetches suspended at the same time
MaxTimers == 2        \* interval handles the browser can hand out at once
MaxRespLen == 2       \* entries in one response's messages array
MaxElapsed == 20000   \* cap of the elapsed-time observers

(* Program constants *)

PollInterval == 15000

Ids == {"a", "b"}
Statuses == {"CREATED", "COMPLETED"}
Delays == {7500}
TimerIds == 1..MaxTimers
NoTimer == 0

Min(x, y) == IF x < y THEN x ELSE y

----------------------------------------------------------------------------
(* JavaScript values that reach the view *)

Undefined == [t |-> "undefined", v |-> ""]
Str(s) == [t |-> "string", v |-> s]
Num(s) == [t |-> "number", v |-> s]

\* JavaScript truthiness, as used by `if (x)`
Truthy(x) ==
    CASE x.t = "undefined" -> FALSE
      [] x.t = "string" -> x.v # ""
      [] x.t = "number" -> x.v # "0"
      [] OTHER -> TRUE

\* text React renders for a string or number child
ToText(x) == x.v

NoData == [present |-> FALSE, messageType |-> Undefined]
Data(mt) == [present |-> TRUE, messageType |-> mt]

\* message.data?.messageType
DataMessageType(message) ==
    IF message.data.present THEN message.data.messageType ELSE Undefined

----------------------------------------------------------------------------
(* Environment of the label resolution *)

StorageKey(messageId) == "message_" \o messageId

CacheStrings ==
    { "", "{bad", "null", "{}", "{\"messageType\":\"B\"}",
      "{\"messageType\":\"\"}", "{\"messageType\":7}" }

\* localStorage.getItem: null for a missing key
GetItem(ls, key) ==
    IF key \in DOMAIN ls THEN [null |-> FALSE, s |-> ls[key]]
                         ELSE [null |-> TRUE, s |-> ""]

\* JSON.parse on the strings of CacheStrings
JSONParse(s) ==
    CASE s = "null" -> [throws |-> FALSE, kind |-> "null", messageType |-> Undefined]
      [] s = "{}" -> [throws |-> FALSE, kind |-> "object", messageType |-> Undefined]
      [] s = "{\"messageType\":\"B\"}" ->
            [throws |-> FALSE, kind |-> "object", messageType |-> Str("B")]
      [] s = "{\"messageType\":\"\"}" ->
            [throws |-> FALSE, kind |-> "object", messageType |-> Str("")]
      [] s = "{\"messageType\":7}" ->
            [throws |-> FALSE, kind |-> "object", messageType |-> Num("7")]
      [] OTHER -> [throws |-> TRUE, kind |-> "none", messageType |-> Undefined]

\* useLayerZero().getMessageTypeName: a total name lookup, except that a
\* malformed code ("Z" here) makes it throw
MessageTypeNames == [x \in {"A"} |-> "Type A"]

getMessageTypeName(code) ==
    IF code.v = "Z" THEN [throws |-> TRUE, name |-> ""]
    ELSE IF code.v \in DOMAIN MessageTypeNames
    THEN [throws |-> FALSE, name |-> MessageTypeNames[code.v]]
    ELSE [throws |-> FALSE, name |-> "Unknown"]

----------------------------------------------------------------------------
(* Render *)

DefaultLabel == "Cross-Chain Query"

\* the inner try block: JSON.parse, then metadata.messageType
CachedLabel(metadataStr) ==
    LET metadata == JSONParse(metadataStr) IN
    IF metadata.throws THEN DefaultLabel
    ELSE IF metadata.kind = "null" THEN DefaultLabel   \* TypeError, caught
    ELSE IF Truthy(metadata.messageType) THEN ToText(metadata.messageType)
    ELSE DefaultLabel

\* the label IIFE of a row
MessageTypeLabelCacheFirst(message, ls, hw) ==
    LET item == GetItem(ls, StorageKey(message.messageId)) IN
    IF hw /\ ~item.null /\ item.s # "" /\ CachedLabel(item.s) # DefaultLabel
    THEN CachedLabel(item.s)
    ELSE IF Truthy(DataMessageType(message))
    THEN LET r == getMessageTypeName(DataMessageType(message)) IN
         IF r.throws THEN DefaultLabel ELSE r.name
    ELSE DefaultLabel
MessageTypeLabel(message, ls, hw) ==
    IF Truthy(DataMessageType(message))
    THEN LET r == getMessageTypeName(DataMessageType(message)) IN
         IF r.throws THEN DefaultLabel ELSE r.name
    ELSE IF ~hw THEN DefaultLabel
    ELSE LET item == GetItem(ls, StorageKey(message.messageId)) IN
         IF item.null \/ item.s = "" THEN DefaultLabel
         ELSE CachedLabel(item.s)

getStatusIcon(status) ==
    CASE status = "COMPLETED" -> "CheckCircle-green"
      [] status = "FAILED" -> "XCircle"
      [] status = "INFLIGHT" -> "ArrowRightLeft"
      [] status = "DELIVERED" -> "CheckCircle-purple"
      [] OTHER -> "Clock"

\* expanded[messageId], as a condition
IsExpanded(exp, messageId) == messageId \in DOMAIN exp /\ exp[messageId]

ConnectionIndicatorNotClosed(conn) ==
    IF conn # "CLOSED" THEN "Live Updates" ELSE "Polling"
ConnectionIndicator(conn) ==
    IF conn = "OPEN" THEN "Live Updates" ELSE "Polling"

Row(message, exp, ls, hw) ==
    [ key |-> message.messageId,
      icon |-> getStatusIcon(message.status),
      label |-> MessageTypeLabel(message, ls, hw),
      isExpanded |-> IsExpanded(exp, message.messageId) ]

RowsDropLast(msgs, exp, ls, hw) ==
    [i \in 1..(Len(msgs) - 1) |-> Row(msgs[i], exp, ls, hw)]
Rows(msgs, exp, ls, hw) ==
    [i \in 1..Len(msgs) |-> Row(msgs[i], exp, ls, hw)]

Render(m, msgs, conn, exp, ls, hw) ==
    IF ~m THEN [kind |-> "unmounted", indicator |-> "none", rows |-> <<>>]
    ELSE IF Len(msgs) = 0
    THEN [kind |-> "empty", indicator |-> "none", rows |-> <<>>]
    ELSE [kind |-> "list", indicator |-> ConnectionIndicator(conn),
          rows |-> Rows(msgs, exp, ls, hw)]

----------------------------------------------------------------------------
(* Notification Client (useWebSocket) *)

ConnectionStates == {"CONNECTING", "OPEN", "CLOSED"}

MessageIds(msgs) == {msgs[i].messageId : i \in 1..Len(msgs)}

\* trackMessage(id): idempotent registration
trackMessage(msgs, id) ==
    IF id \in MessageIds(msgs) THEN msgs
    ELSE Append(msgs, [messageId |-> id, status |-> "CREATED", data |-> NoData])

\* a push notification: a new record, or an update in place
PushUpdate(msgs, id, st, d) ==
    IF id \in MessageIds(msgs)
    THEN [i \in 1..Len(msgs) |->
            IF msgs[i].messageId = id
            THEN [messageId |-> id, status |-> st, data |-> d] ELSE msgs[i]]
    ELSE Append(msgs, [messageId |-> id, status |-> st, data |-> d])

\* the client's own eviction
EvictMessage(msgs, id) ==
    LET Keep(m) == m.messageId # id IN SelectSeq(msgs, Keep)

----------------------------------------------------------------------------
(* Browser timers *)

EmptyMap == [k \in {} |-> 0]

setInterval(ts, id) == [t \in DOMAIN ts \cup {id} |-> IF t = id THEN 0 ELSE ts[t]]

clearInterval(ts, id) == [t \in DOMAIN ts \ {id} |-> ts[t]]

FreeTimers(ts) == TimerIds \ DOMAIN ts

NewTimerId(ts) == CHOOSE id \in FreeTimers(ts) : \A o \in FreeTimers(ts) : id <= o

\* an interval that fired is armed again for the next period
RearmOnce(ts, id) == clearInterval(ts, id)
Rearm(ts, id) == [ts EXCEPT ![id] = 0]

Elapse(ts, d) == [t \in DOMAIN ts |-> ts[t] + d]

----------------------------------------------------------------------------
(* fetchRealMessages *)

Failures == {"NetworkError", "NotOK", "BadJson"}

Resp(kind, has, ids) == [kind |-> kind, hasMessages |-> has, ids |-> ids]

NoResp == Resp("none", FALSE, <<>>)

SeqsUpTo(S, n) == UNION {[1..k -> S] : k \in 0..n}

\* what `await fetch` / `response.json()` can deliver
Responses ==
    {Resp(k, FALSE, <<>>) : k \in Failures}
    \cup {Resp("NotOK", TRUE, <<id>>) : id \in Ids}
    \cup {Resp("OK", FALSE, <<>>)}
    \cup {Resp("OK", TRUE, ids) : ids \in SeqsUpTo(Ids, MaxRespLen)}

\* up to the await: the call is suspended in fetch
fetchRealMessages(inf, origin) == Append(inf, [origin |-> origin])

\* after the await: the ids trackMessage is called with, in order
ResponseIdsNoOkCheck(resp) ==
    IF resp.hasMessages /\ Len(resp.ids) > 0 THEN resp.ids ELSE <<>>
ResponseIds(resp) ==
    IF resp.kind = "OK"
    THEN IF resp.hasMessages /\ Len(resp.ids) > 0 THEN resp.ids ELSE <<>>
    ELSE <<>>

RECURSIVE TrackAll(_, _)
TrackAll(msgs, ids) ==
    IF ids = <<>> THEN msgs
    ELSE TrackAll(trackMessage(msgs, Head(ids)), Tail(ids))

RemoveAt(s, i) == [j \in 1..(Len(s) - 1) |-> IF j < i THEN s[j] ELSE s[j + 1]]

----------------------------------------------------------------------------
(* The polling effect *)

\* the effect's cleanup
CleanupLeak(ts, id) == ts
Cleanup(ts, id) == clearInterval(ts, id)

\* does this run of the effect fetch at once
ColdStart(msgs) == Len(msgs) = 0

EffectEnabled(msgs, ts, inf) ==
    /\ FreeTimers(ts) # {}
    /\ ColdStart(msgs) => Len(inf) < MaxInFlight

LastFailed == lastDone.resp.kind \in Failures

\* the effect body, run at mount (origin "mount") and on a change of
\* messages.length or trackMessage (origin "rerun")
EffectBody(msgs, ts, inf, origin) ==
    /\ EffectEnabled(msgs, ts, inf)
    /\ inflight' = IF ColdStart(msgs)
                   THEN fetchRealMessages(inf, "immediate") ELSE inf
    /\ lastIssued' = IF ColdStart(msgs) THEN origin
                     ELSE IF origin = "mount" THEN "none" ELSE lastIssued
    /\ sinceFetch' = IF ColdStart(msgs) \/ origin = "mount" THEN 0 ELSE sinceFetch
    /\ intervalId' = NewTimerId(ts)
    /\ timers' = setInterval(ts, NewTimerId(ts))

\* React after a render in the browser: cleanup and re-run when a dependency
\* changed (a render without a window, on the server, runs no effect)
RunEffects(msgs, depsChanged, inf) ==
    IF mounted /\ hasWindow /\ depsChanged
    THEN EffectBody(msgs, Cleanup(timers, intervalId), inf, "rerun")
    ELSE /\ inflight' = inf
         /\ UNCHANGED <<timers, intervalId, lastIssued, sinceFetch>>

Rendered ==
    view' = Render(mounted', messages', connectionState', expanded',
                   localStorage', hasWindow')

----------------------------------------------------------------------------
(* Actions *)

NoDone == [origin |-> "none", resp |-> NoResp, calls |-> <<>>]

InitCommon ==
    /\ mounted = FALSE
    /\ messages = <<>>
    /\ connectionState = "CONNECTING"
    /\ expanded = EmptyMap
    /\ timers = EmptyMap
    /\ intervalId = NoTimer
    /\ inflight = <<>>
    /\ view = Render(FALSE, <<>>, "CONNECTING", EmptyMap, EmptyMap, TRUE)
    /\ lastIssued = "none"
    /\ lastDone = NoDone
    /\ sinceFetch = 0
    /\ sinceTick = PollInterval
    /\ tickGap = PollInterval

Init ==
    /\ InitCommon
    /\ hasWindow = TRUE
    /\ localStorage = EmptyMap

Mount ==
    /\ ~mounted
    /\ mounted' = TRUE
    /\ expanded' = EmptyMap
    /\ IF hasWindow
       THEN EffectBody(messages, timers, inflight, "mount")
       ELSE UNCHANGED <<timers, intervalId, inflight, lastIssued, sinceFetch>>
    /\ UNCHANGED <<messages, connectionState, localStorage, hasWindow,
                   lastDone, sinceTick, tickGap>>
    /\ Rendered

Unmount ==
    /\ mounted
    /\ mounted' = FALSE
    /\ expanded' = EmptyMap
    /\ timers' = Cleanup(timers, intervalId)
    /\ intervalId' = NoTimer
    /\ lastIssued' = "none"
    /\ sinceFetch' = 0
    /\ UNCHANGED <<messages, connectionState, localStorage, hasWindow,
                   inflight, lastDone, sinceTick, tickGap>>
    /\ Rendered

\* the Notification Client receives a push for `id`
PushMessage(id, st, d) ==
    /\ messages' = PushUpdate(messages, id, st, d)
    /\ messages' # messages
    /\ RunEffects(messages', Len(messages') # Len(messages), inflight)
    /\ UNCHANGED <<mounted, connectionState, expanded, localStorage, hasWindow,
                   lastDone, sinceTick, tickGap>>
    /\ Rendered

\* the Notification Client evicts `id`
Evict(id) ==
    /\ id \in MessageIds(messages)
    /\ messages' = EvictMessage(messages, id)
    /\ RunEffects(messages', Len(messages') # Len(messages), inflight)
    /\ UNCHANGED <<mounted, connectionState, expanded, localStorage, hasWindow,
                   lastDone, sinceTick, tickGap>>
    /\ Rendered

\* useWebSocket returns a new trackMessage function
TrackMessageChange ==
    /\ mounted
    /\ RunEffects(messages, TRUE, inflight)
    /\ UNCHANGED <<mounted, messages, connectionState, expanded, localStorage,
                   hasWindow, lastDone, sinceTick, tickGap, view>>

SetConnectionState(c) ==
    /\ c # connectionState
    /\ connectionState' = c
    /\ UNCHANGED <<mounted, messages, expanded, localStorage, hasWindow, timers,
                   intervalId, inflight, lastIssued, lastDone, sinceFetch,
                   sinceTick, tickGap>>
    /\ Rendered

\* time passes; a due interval fires before more time passes
Advance(d) ==
    /\ \A t \in DOMAIN timers : timers[t] + d <= PollInterval
    /\ timers' = Elapse(timers, d)
    /\ sinceFetch' = IF mounted THEN Min(sinceFetch + d, MaxElapsed) ELSE sinceFetch
    /\ sinceTick' = Min(sinceTick + d, PollInterval)
    /\ UNCHANGED <<mounted, messages, connectionState, expanded, localStorage,
                   hasWindow, intervalId, inflight, view, lastIssued, lastDone,
                   tickGap>>

\* the interval callback
TimerFire(t) ==
    /\ t \in DOMAIN timers
    /\ timers[t] >= PollInterval
    /\ Len(inflight) < MaxInFlight
    /\ timers' = Rearm(timers, t)
    /\ inflight' = fetchRealMessages(inflight, "tick")
    /\ lastIssued' = "tick"
    /\ sinceFetch' = 0
    /\ tickGap' = sinceTick
    /\ sinceTick' = 0
    /\ UNCHANGED <<mounted, messages, connectionState, expanded, localStorage,
                   hasWindow, intervalId, view, lastDone>>

\* a suspended fetchRealMessages resumes with `resp`
FetchComplete(i, resp) ==
    /\ i \in 1..Len(inflight)
    /\ messages' = TrackAll(messages, ResponseIds(resp))
    /\ lastDone' = [origin |-> inflight[i].origin, resp |-> resp,
                    calls |-> ResponseIds(resp)]
    /\ RunEffects(messages', Len(messages') # Len(messages), RemoveAt(inflight, i))
    /\ UNCHANGED <<mounted, connectionState, expanded, localStorage, hasWindow,
                   sinceTick, tickGap>>
    /\ Rendered

----------------------------------------------------------------------------
(* Expansion toggles *)

toggleExpanded(exp, messageId) ==
    [k \in DOMAIN exp \cup {messageId} |->
        IF k = messageId THEN ~IsExpanded(exp, messageId) ELSE exp[k]]

\* the row header's onClick
RowOnClick(exp, messageId) == toggleExpanded(exp, messageId)

\* the Button's onClick; the event then bubbles to the row unless stopped
ButtonOnClickBubbling(exp, messageId) ==
    RowOnClick(toggleExpanded(exp, messageId), messageId)
ButtonOnClick(exp, messageId) == toggleExpanded(exp, messageId)

RowShown(messageId) == mounted /\ messageId \in MessageIds(messages)

ClickRow(id) ==
    /\ RowShown(id)
    /\ expanded' = RowOnClick(expanded, id)
    /\ UNCHANGED <<mounted, messages, connectionState, localStorage, hasWindow,
                   timers, intervalId, inflight, lastIssued, lastDone, sinceFetch,
                   sinceTick, tickGap>>
    /\ Rendered

ClickButton(id) ==
    /\ RowShown(id)
    /\ expanded' = ButtonOnClick(expanded, id)
    /\ UNCHANGED <<mounted, messages, connectionState, localStorage, hasWindow,
                   timers, intervalId, inflight, lastIssued, lastDone, sinceFetch,
                   sinceTick, tickGap>>
    /\ Rendered

----------------------------------------------------------------------------
(* Specifications *)

\* the poller with the Notification Client
Next ==
    \/ Mount
    \/ Unmount
    \/ \E id \in Ids, st \in Statuses : PushMessage(id, st, NoData)
    \/ \E id \in Ids : Evict(id)
    \/ TrackMessageChange
    \/ \E d \in Delays : Advance(d)
    \/ \E t \in TimerIds : TimerFire(t)
    \/ \E i \in 1..MaxInFlight, resp \in Responses : FetchComplete(i, resp)

Spec == Init /\ [][Next]_vars

\* the view with its toggles and the connection indicator
NextView ==
    \/ Mount
    \/ Unmount
    \/ \E id \in Ids : PushMessage(id, "CREATED", NoData)
    \/ \E id \in Ids : Evict(id)
    \/ \E c \in ConnectionStates : SetConnectionState(c)
    \/ \E id \in Ids : ClickRow(id)
    \/ \E id \in Ids : ClickButton(id)
    \/ \E i \in 1..MaxInFlight : FetchComplete(i, Resp("NetworkError", FALSE, <<>>))

SpecView == Init /\ [][NextView]_vars

\* the label resolution over payloads and cached metadata
DataValues ==
    {NoData, Data(Undefined), Data(Str("")), Data(Str("A")), Data(Str("Z"))}

StorageKeys == {StorageKey(id) : id \in Ids}

Storages == UNION {[K -> CacheStrings] : K \in SUBSET StorageKeys}

InitLabel ==
    /\ InitCommon
    /\ hasWindow \in BOOLEAN
    /\ localStorage \in (IF hasWindow THEN Storages ELSE {EmptyMap})

NextLabel ==
    \/ Mount
    \/ Unmount
    \/ \E id \in Ids, d \in DataValues : PushMessage(id, "CREATED", d)
    \/ \E id \in Ids : Evict(id)
    \/ \E i \in 1..MaxInFlight : FetchComplete(i, Resp("NetworkError", FALSE, <<>>))

SpecLabel == InitLabel /\ [][NextLabel]_vars

----------------------------------------------------------------------------
(* Claims *)

RowKeys == [i \in 1..Len(view.rows) |-> view.rows[i].key]

Range(f) == {f[i] : i \in DOMAIN f}

FetchResumed == Len(inflight') < Len(inflight)

\* C1: while the view is mounted, no 15-second window passes without the
\* poller issuing a fetch, whatever the changes of the tracked-message count.
C1_FetchEvery15s == mounted => sinceFetch <= PollInterval

\* C2: a failed fetch never stops polling: while the view is mounted after a
\* fetch that failed, the view's interval is still armed and comes due within
\* 15 seconds, and when it is due its callback can run and issue a fetch.
C2_FailureKeepsPolling ==
    (mounted /\ LastFailed) =>
        /\ intervalId \in DOMAIN timers
        /\ timers[intervalId] <= PollInterval
        /\ (timers[intervalId] = PollInterval /\ Len(inflight) < MaxInFlight)
              => ENABLED TimerFire(intervalId)

\* C2 witness: a tick's fetch has failed with a network error and the next
\* tick has just issued the following fetch, which is suspended now.
C2_Witness ==
    /\ mounted
    /\ lastDone.origin = "tick"
    /\ lastDone.resp.kind = "NetworkError"
    /\ lastIssued = "tick"
    /\ inflight = <<[origin |-> "tick"]>>
    /\ timers[intervalId] = 0

\* C3: after teardown no timer of the view is live and the view has issued
\* no fetch since the teardown.
C3_UnmountCancelsTimer ==
    ~mounted => /\ DOMAIN timers = {}
                /\ intervalId = NoTimer
                /\ lastIssued = "none"

\* C3 witness: the view was torn down after its interval had ticked, with a
\* fetch still suspended.
C3_Witness ==
    /\ ~mounted
    /\ lastDone.origin = "tick"
    /\ inflight # <<>>
    /\ Len(messages) > 0

\* C4: when a fetch resumes, trackMessage is called exactly for the entries
\* of an OK response's messages array, each of them is then tracked, and any
\* other response calls nothing and leaves the client's collection unchanged.
C4_TrackIffOk ==
    [][FetchResumed =>
         LET r == lastDone'.resp
             expected == IF r.kind = "OK" /\ r.hasMessages THEN r.ids ELSE <<>>
         IN /\ lastDone'.calls = expected
            /\ Range(expected) \subseteq MessageIds(messages')
            /\ r.kind # "OK" => messages' = messages]_vars

\* C4 witness: a non-OK response that carried a messages array resumed, and
\* its id is not tracked.
C4_Witness ==
    /\ lastDone.resp.kind = "NotOK"
    /\ lastDone.resp.hasMessages
    /\ Range(lastDone.resp.ids) \cap MessageIds(messages) = {}
    /\ Len(messages) > 0

\* C5: the rendered list has exactly one row per tracked messageId, in the
\* client's order and without duplicates.
C5_OneRowPerMessage ==
    mounted =>
        /\ Len(view.rows) = Len(messages)
        /\ \A i \in 1..Len(messages) : view.rows[i].key = messages[i].messageId
        /\ Cardinality(Range(RowKeys)) = Len(view.rows)
        /\ Range(RowKeys) = MessageIds(messages)

\* C5 witness: two rows are shown after one response registered the same id
\* twice.
C5_Witness ==
    /\ mounted
    /\ Len(view.rows) = 2
    /\ lastDone.resp.kind = "OK"
    /\ Len(lastDone.calls) = 2
    /\ lastDone.calls[1] = lastDone.calls[2]

\* C9: the only fetch outside the 15-second schedule is the one at
\* activation: no re-run of the effect (a change of the tracked-message
\* count or of trackMessage) issues a fetch.
C9_ImmediateFetchOnlyAtMount == lastIssued # "rerun"

\* C10: at most one interval of the view is live, it is the one the current
\* effect created, and two interval callbacks are never less than 15 seconds
\* apart.
C10_SingleTimer ==
    /\ Cardinality(DOMAIN timers) <= 1
    /\ mounted => DOMAIN timers = {intervalId}
    /\ tickGap >= PollInterval

\* C10 witness: the effect re-ran (and fetched at once) after the interval
\* had ticked, and one interval is live.
C10_Witness ==
    /\ mounted
    /\ Cardinality(DOMAIN timers) = 1
    /\ lastIssued = "rerun"
    /\ lastDone.origin = "tick"

----------------------------------------------------------------------------
(* Claims about the render *)

\* the label the three rules give, read off the payload and the raw cached
\* string
ResolvedName(code) ==
    CASE code = "A" -> "Type A"
      [] code = "Z" -> DefaultLabel
      [] OTHER -> "Unknown"

CachedText(ls, messageId) ==
    LET key == StorageKey(messageId) IN
    IF key \notin DOMAIN ls THEN DefaultLabel
    ELSE CASE ls[key] = "{\"messageType\":\"B\"}" -> "B"
           [] ls[key] = "{\"messageType\":7}" -> "7"
           [] OTHER -> DefaultLabel

\* the claim's reading of a cached value: a messageType string, verbatim
CachedString(ls, messageId) ==
    LET key == StorageKey(messageId) IN
    IF key \notin DOMAIN ls THEN DefaultLabel
    ELSE CASE ls[key] = "{\"messageType\":\"B\"}" -> "B"
           [] ls[key] = "{\"messageType\":\"\"}" -> ""
           [] OTHER -> DefaultLabel

C7_IndicatorAsClaimed ==
    mounted => view.indicator =
                 (IF connectionState = "OPEN" THEN "Live Updates" ELSE "Polling")

\* C7 amended: while at least one message is tracked the mounted view shows
\* "Live Updates" iff the connection state is OPEN and "Polling" otherwise;
\* with no tracked message it shows the empty state and neither indicator.
C7_Indicator ==
    mounted =>
        IF Len(messages) > 0
        THEN view.indicator =
               (IF connectionState = "OPEN" THEN "Live Updates" ELSE "Polling")
        ELSE view.kind = "empty" /\ view.indicator = "none"

\* C7 witness: a list is shown while the connection is still CONNECTING, with
\* the Polling indicator.
C7_Witness ==
    /\ mounted
    /\ Len(view.rows) > 0
    /\ connectionState = "CONNECTING"
    /\ view.indicator = "Polling"

RowFlag(v, id) == \E i \in 1..Len(v.rows) : v.rows[i].key = id /\ v.rows[i].isExpanded

\* C8: a click (on the row or on its toggle control) flips the expansion
\* flag of exactly that row and of no other id, the rendered row follows the
\* flag, and toggling a row twice gives back the flag it had.
C8_ToggleFlipsOneRow ==
    [][(mounted /\ mounted' /\ expanded' # expanded) =>
         /\ \E id \in MessageIds(messages) :
               /\ IsExpanded(expanded', id) = ~IsExpanded(expanded, id)
               /\ RowFlag(view', id) = ~RowFlag(view, id)
               /\ \A o \in Ids \ {id} :
                     IsExpanded(expanded', o) = IsExpanded(expanded, o)
         /\ \A id \in Ids :
               IsExpanded(toggleExpanded(toggleExpanded(expanded, id), id), id)
                  = IsExpanded(expanded, id)]_vars

\* C8 witness: row "a" was toggled twice and is collapsed again, while row
\* "b", toggled once, is still expanded.
C8_Witness ==
    /\ mounted
    /\ "a" \in DOMAIN expanded
    /\ ~RowFlag(view, "a")
    /\ RowFlag(view, "b")

====
